---- MODULE Spec2Model ----
(***************************************************************************)
(* The cs162 homework shell (hw-shell/shell.c, and its earlier variant     *)
(* without pipes) as a system of processes: every process runs the same    *)
(* program text, so one record per process holds its program counter, its  *)
(* copies of the C locals, its descriptor table and its signal             *)
(* dispositions.  fork() copies the record.  (Spec)                        *)
(*                                                                         *)
(* One call of the shell's resolver on any PATH and name, with the strings *)
(* it reads and writes.  (ResolveSpec)                                     *)
(*                                                                         *)
(* The allocator of hw-memory/mm_alloc under any sequence of calls on      *)
(* valid pointers.  (AllocSpec)                                            *)
(***************************************************************************)
EXTENDS Integers, Sequences, FiniteSets, TLC

\* ---------------------------------------------------------------- bounds
\* Total number of tokens the terminal delivers before end-of-input, the
\* newline that ends each line counted as one.
MaxInput == 6
\* Largest number of stages in one typed line.
MaxStages == 3
\* Number of data units a pipe buffers before a writer blocks.
PipeCap == 1
\* Number of pipe() and fork() calls the kernel refuses (ENFILE, EAGAIN).
MaxFail == 1
\* The writer program writes one unit more than a pipe can buffer.
WriteLen == PipeCap + 1

\* ------------------------------------------------------------- the world
\* Programs installed in the directory PathDir, and what they do:
\*   seq    writes WriteLen lines to its standard output, exits 0
\*   echo   writes one line to its standard output, exits 0
\*   wc     reads its standard input to end-of-file, exits 0
\*   false  exits 1
\* PATH lists OptDir before PathDir; OptDir holds one file, also named
\* false.  The shell's working directory holds one file, here, and is not
\* on PATH.  Both exit 1 at once.
PathDir == "/bin"
OptDir == "/opt"
PATH == <<OptDir, PathDir>>
Installed == {"seq", "echo", "wc", "false"}
DirPath(dir, cmd) == dir \o "/" \o cmd
FullPath(cmd) == DirPath(PathDir, cmd)
\* The path names that name an existing file, as the kernel resolves them
\* for a process of the shell (a relative name starts at the working
\* directory).
FileSystem ==
  {FullPath(c) : c \in Installed}
    \cup {DirPath(OptDir, "false"), "here", DirPath(".", "here")}
ProgramAt(path) ==
  CASE path = FullPath("seq") -> "seq"
    [] path = FullPath("echo") -> "echo"
    [] path = FullPath("wc") -> "wc"
    [] OTHER -> "false"
\* The names without a '/' that occur, and the names with one: what
\* strchr(name, '/') tells apart.
BareNames == Installed \cup {"nosuch", "here"}
HasSlash(name) ==
  name \in {DirPath(d, c) : d \in {OptDir, PathDir, "."}, c \in BareNames}
\* Files that open() refuses.
Unopenable == {"no"}
\* The text of one line written by seq or echo, tokenized.
DataLine == <<"1">>

Signals == {"SIGINT", "SIGQUIT", "SIGKILL", "SIGTERM", "SIGTSTP", "SIGCONT",
            "SIGTTIN", "SIGTTOU"}
JobSignals == {"SIGINT", "SIGQUIT", "SIGTSTP", "SIGCONT", "SIGTTIN", "SIGTTOU"}

\* Exit statuses as the shell's parent would see them.
SEGV == 128 + 11
EPIPE == 128 + 13
NoStatus == 0 - 1

\* An element of a C array that was never assigned.
Uninit == "?"
\* The null pointer, where a string is expected.
Null == "(null)"

\* ----------------------------------------------------------------- input
\* What is typed between two '|': a command, possibly with a redirection,
\* or nothing at all (an empty line, a '|' at either end of the line, two
\* adjacent '|').
StageTemplates ==
  { <<"seq">>, <<"echo">>, <<"wc">>, <<"false">>, <<"nosuch">>, <<"here">>,
    <<"wc", "<", "ok">>, <<"seq", ">", "ok">>, <<"wc", "<", "no">>,
    <<"wc", "<">>, <<>> }

\* Lines that are typed only on their own.
SingleLines ==
  { <<"exit">>, <<DirPath(".", "here")>>, <<"wc", "<", "ok", ">", "out">> }

RECURSIVE JoinStages(_)
JoinStages(ss) ==
  IF Len(ss) = 1 THEN ss[1] ELSE ss[1] \o <<"|">> \o JoinStages(Tail(ss))

Lines ==
  UNION { { JoinStages(ss) : ss \in [1..m -> StageTemplates] } : m \in 1..MaxStages }
    \cup SingleLines

\* ----------------------------------------------------------- descriptors
Tty == [obj |-> "tty", id |-> 0, e |-> ""]
File(name) == [obj |-> "file", id |-> 0, e |-> name]
PipeEnd(id, end) == [obj |-> "pipe", id |-> id, e |-> end]
READ_END == "r"
WRITE_END == "w"

\* ------------------------------------------------------- pure C functions
\* lookup(): index into cmd_table, -1 when not a built-in (only exit is
\* given a behaviour here; ?, pwd and cd do not fork and change nothing
\* the claims read).
lookup(tokens) ==
  IF Len(tokens) > 0 /\ tokens[1] = "exit" THEN 1 ELSE -1

have_pipes(argv) ==
  LET m == Cardinality({j \in 1..Len(argv) : argv[j] = "|"})
  IN IF m = 0 THEN -1 ELSE m

have_redirection(argv) ==
  \E j \in 1..Len(argv) : argv[j] = "<" \/ argv[j] = ">"

\* get_full_path_command(): a name without '/' becomes dir/name for the
\* first PATH directory where that file exists, otherwise it is unchanged.
\* The same with the last directory where the file exists.
get_full_path_command_LastMatch(command) ==
  LET found == {j \in 1..Len(PATH) : DirPath(PATH[j], command) \in FileSystem}
  IN IF HasSlash(command) \/ found = {} THEN command
     ELSE DirPath(PATH[CHOOSE j \in found : \A h \in found : h <= j], command)

get_full_path_command(command) ==
  LET found == {j \in 1..Len(PATH) : DirPath(PATH[j], command) \in FileSystem}
  IN IF HasSlash(command) \/ found = {} THEN command
     ELSE DirPath(PATH[CHOOSE j \in found : \A h \in found : j <= h], command)

\* open(): -1 on failure, otherwise the lowest free descriptor, which is
\* above 2 because the shell never closes 0, 1 or 2.
open(name) == IF name \in Unopenable THEN -1 ELSE 3

\* The argument vector of lines 372-381 of main: the tokens, argv[0] resolved.
MainArgv(tokens) ==
  [j \in 1..Len(tokens) |->
     IF j = 1 THEN get_full_path_command(tokens[1]) ELSE tokens[j]]

\* pipe_handler's copy loop for a stage that is not the last (lines 293-300):
\* "for (j = start_index; j < sub_argc; ++j) sub_argv[j - start_index] = argv[j]".
SubArgv(argv, start_index, sub_argc) ==
  [j \in 1..sub_argc |->
     IF start_index + (j - 1) < sub_argc
       THEN argv[start_index + j] ELSE Uninit]

\* pipe_handler's copy loop for the last stage (lines 309-316).
TailArgv(argv, start_index) ==
  [j \in 1..(Len(argv) - start_index) |-> argv[start_index + j]]

\* The first index k >= from (C index) with argv[k] = "|", or -1.
NextBar(argv, from) ==
  LET S == {j \in from..(Len(argv) - 1) : argv[j + 1] = "|"}
  IN IF S = {} THEN -1 ELSE CHOOSE j \in S : \A h \in S : j <= h

\* The same with the last operator of the vector in place of the first.
redirection_handler_LastOperator(argv) ==
  LET S == {j \in 1..Len(argv) : argv[j] = "<" \/ argv[j] = ">"}
      idx == CHOOSE j \in S : \A h \in S : h <= j
      hasname == idx < Len(argv)
      fd == IF hasname THEN open(argv[idx + 1]) ELSE -1
      dupped == fd # 0 /\ fd >= 0
  IN [ in |-> IF argv[idx] = "<" /\ dupped THEN File(argv[idx + 1]) ELSE Tty,
       setin |-> argv[idx] = "<" /\ dupped,
       out |-> IF argv[idx] = ">" /\ dupped THEN File(argv[idx + 1]) ELSE Tty,
       setout |-> argv[idx] = ">" /\ dupped,
       eargv |-> SubSeq(argv, 1, idx - 1) ]

\* redirection_handler(): the descriptor changes and the execv() call it
\* ends with.  Only the first operator is looked at.
redirection_handler(argv) ==
  LET S == {j \in 1..Len(argv) : argv[j] = "<" \/ argv[j] = ">"}
      idx == CHOOSE j \in S : \A h \in S : j <= h
      redirect_out == argv[idx] = ">"
      redirect_in == argv[idx] = "<"
      hasname == idx < Len(argv)
      fd == IF hasname THEN open(argv[idx + 1]) ELSE -1
      argv_after == SubSeq(argv, 1, idx - 1)
      \* dup2(fd, 0 or 1) takes effect only for a valid descriptor; the
      \* code skips it when fd == 0 and prints "can't open file".
      dupped == fd # 0 /\ fd >= 0
  IN [ in |-> IF redirect_in /\ dupped THEN File(argv[idx + 1]) ELSE Tty,
       setin |-> redirect_in /\ dupped,
       out |-> IF redirect_out /\ dupped THEN File(argv[idx + 1]) ELSE Tty,
       setout |-> redirect_out /\ dupped,
       eargv |-> argv_after ]

\* execute(): what execv() is called with, and the redirections applied first.
execute(argv) ==
  IF have_redirection(argv) THEN redirection_handler(argv)
  ELSE [ in |-> Tty, setin |-> FALSE, out |-> Tty, setout |-> FALSE,
         eargv |-> argv ]

\* execv(path, argv) replaces the image iff path names an existing program;
\* a NULL path (empty vector) fails.
ExecOK(eargv) == Len(eargv) > 0 /\ eargv[1] \in FileSystem

\* ------------------------------------------------------------------ state
VARIABLES
  variant,   \* "pipes": hw-shell/shell.c; "basic": the variant without pipes
  procs,     \* pid -> the process's record; pid 1 is the interpreter
  pipes,     \* pipe id -> number of buffered data units
  ntok,      \* tokens the terminal has delivered so far
  nforked,   \* processes created since the interpreter read its line
  nwaited,   \* wait-collections by the interpreter since it read its line
  nfail,     \* pipe() and fork() calls the kernel has refused so far
  \* One call of the resolver, taken on its own:
  str,       \* the C strings it works on, each as the list of directories
             \* a reader of the string sees: path is the value of PATH in
             \* the environment, path_copy the heap block of line 158
  command,   \* the name handed to the resolver, and what it left there
  rpc,       \* "off" (no call), "call", "ret", "crash"
  \* The allocator of hw-memory/mm_alloc:
  list,      \* address of the first block header, 0 for NULL
  heap,      \* address -> the block header stored there
  brk,       \* bytes obtained from sbrk so far
  held,      \* the data pointers the caller got from mm_malloc and
             \* mm_realloc and has not freed -> the size it asked for
  fault      \* "" while the process lives; "null" once a call followed a
             \* null pointer, "overrun" once memset ran off the heap

resolver == <<str, command, rpc>>
allocator == <<list, heap, brk, held, fault>>
vars == <<variant, procs, pipes, ntok, nforked, nwaited, nfail, resolver,
          allocator>>

Closed == [obj |-> "closed", id |-> 0, e |-> ""]

\* The C locals of main and pipe_handler, as they are before a line is
\* read, and three records of what happened while the line was handled:
\* the close() calls made (closed), the shell's own standard descriptors
\* when it read the line (shin, shout), the status the kernel handed to
\* the last wait call (wst), and whether a pipe() or fork() call of
\* pipe_handler was refused (pfail).
Locals ==
  [argv |-> <<>>, n |-> 0, i |-> 0, start_index |-> 0, end_index |-> 0 - 1,
   k |-> 0, cpid |-> 0, pipe_arr |-> <<>>, closed |-> <<>>,
   shin |-> Tty, shout |-> Tty, wst |-> NoStatus, pfail |-> FALSE]

SetLocals(r, l) ==
  [r EXCEPT !.argv = l.argv, !.n = l.n, !.i = l.i,
            !.start_index = l.start_index, !.end_index = l.end_index,
            !.k = l.k, !.cpid = l.cpid, !.pipe_arr = l.pipe_arr,
            !.closed = l.closed, !.shin = l.shin, !.shout = l.shout,
            !.wst = l.wst, !.pfail = l.pfail]

\* Besides the locals, the descriptors and the dispositions, a record keeps
\* what the process did last: the name it handed to the resolver (cname),
\* whether it has called execute (called), the vector it handed to it
\* (sargv) with its standard input and output at that moment (xin, xout),
\* and the vector it handed to execv (eargv).
Interpreter ==
  [pc |-> "init", ppid |-> 0,
   argv |-> <<>>, n |-> 0, i |-> 0, start_index |-> 0, end_index |-> 0 - 1,
   k |-> 0, cpid |-> 0, pipe_arr |-> <<>>, closed |-> <<>>,
   shin |-> Tty, shout |-> Tty, wst |-> NoStatus, pfail |-> FALSE,
   fds |-> {}, in |-> Tty, out |-> Tty,
   sig |-> [s \in Signals |-> "SIG_DFL"], reset |-> FALSE,
   status |-> NoStatus,
   stage |-> 0 - 1, failed |-> FALSE,
   prog |-> "", todo |-> 0, eargv |-> <<>>, xstatus |-> NoStatus,
   cname |-> "", called |-> FALSE, sargv |-> <<>>, xin |-> Closed,
   xout |-> Closed]

\* No call of the resolver is looked at on its own.
NoResolverCall ==
  /\ str = [path |-> PATH, path_copy |-> <<>>]
  /\ command = ""
  /\ rpc = "off"

\* mm_alloc.c line 12: block* list = NULL, and nothing obtained from sbrk.
EmptyHeap ==
  /\ list = 0
  /\ heap = <<>>
  /\ brk = 0
  /\ held = <<>>
  /\ fault = ""

\* The shell before init_shell.
ShellStart ==
  /\ procs = [p \in {1} |-> Interpreter]
  /\ pipes = <<>>
  /\ ntok = 0
  /\ nforked = 0
  /\ nwaited = 0
  /\ nfail = 0

Init ==
  /\ variant \in {"pipes", "basic"}
  /\ ShellStart
  /\ NoResolverCall
  /\ EmptyHeap

\* -------------------------------------------------------------- the kernel
Holds(r, d) == r.in = d \/ r.out = d \/ d \in r.fds

Readers(ps, id) == {q \in DOMAIN ps : Holds(ps[q], PipeEnd(id, READ_END))}
Writers(ps, id) == {q \in DOMAIN ps : Holds(ps[q], PipeEnd(id, WRITE_END))}

\* A pipe nobody holds a descriptor of no longer exists.
Collect(ps, pp) ==
  [id \in {x \in DOMAIN pp : Readers(ps, x) \cup Writers(ps, x) # {}} |-> pp[id]]

\* _exit(), or death by a signal: every descriptor is closed and the
\* process stays a zombie until its parent collects it.
Zombie(r, st) ==
  [SetLocals(r, Locals) EXCEPT !.pc = "zombie", !.xstatus = st,
                               !.in = Closed, !.out = Closed, !.fds = {}]

\* close(d): the descriptor leaves the table; the call is recorded.
close(r, d) ==
  [r EXCEPT !.fds = @ \ {d}, !.closed = Append(@, d)]

\* dup2(d, 0) and dup2(d, 1): no effect when d is not open (EBADF).
dup2in(r, d) == IF d \in r.fds THEN [r EXCEPT !.in = d] ELSE r
dup2out(r, d) == IF d \in r.fds THEN [r EXCEPT !.out = d] ELSE r

NewPid == CHOOSE q \in 1..(Cardinality(DOMAIN procs) + 1) : q \notin DOMAIN procs

\* fork(): the child is a copy of the parent; it has made no call yet.
ForkChild(r, p) ==
  [r EXCEPT !.ppid = p, !.cpid = 0, !.stage = r.i, !.closed = <<>>,
            !.reset = FALSE, !.failed = FALSE, !.status = NoStatus,
            !.wst = NoStatus,
            !.called = FALSE, !.sargv = <<>>, !.eargv = <<>>,
            !.xin = Closed, !.xout = Closed]

Forked(p, parent, child) ==
  [q \in DOMAIN procs \cup {NewPid} |->
     IF q = NewPid THEN child ELSE IF q = p THEN parent ELSE procs[q]]

Reaped(p, parent, c) ==
  [q \in DOMAIN procs \ {c} |-> IF q = p THEN parent ELSE procs[q]]

Update(p, r) == [procs EXCEPT ![p] = r]

\* ---------------------------------------------------------------- signals
\* signal_ingore(): called by init_shell; every call passes SIG_DFL.
signal_ingore(sig) == [s \in Signals |-> "SIG_DFL"]
\* signal_default()
signal_default(sig) == [s \in Signals |-> "SIG_DFL"]

\* init_shell() of the variant: only shell.c touches the dispositions.
InitShell(p) ==
  /\ procs[p].pc = "init"
  /\ procs' = Update(p, [procs[p] EXCEPT
                 !.pc = "fgets",
                 !.sig = IF variant = "pipes" THEN signal_ingore(@) ELSE @])
  /\ UNCHANGED <<variant, pipes, ntok, nforked, nwaited, nfail, resolver, allocator>>

\* ------------------------------------------------------------ main's loop
\* What main does with a tokenized line: a built-in runs in the process
\* (exit ends it), anything else goes to fork (no '|', or the basic
\* variant) or to pipe_handler.
Dispatch(r, tokens) ==
  IF lookup(tokens) >= 0 THEN Zombie(r, 0)
  ELSE IF variant = "basic"
    THEN [r EXCEPT !.pc = "m_fork", !.argv = tokens, !.n = 1,
                   !.shin = r.in, !.shout = r.out]
  ELSE IF have_pipes(MainArgv(tokens)) = -1
    THEN [r EXCEPT !.pc = "m_fork", !.argv = MainArgv(tokens), !.n = 1,
                   !.shin = r.in, !.shout = r.out,
                   !.cname = IF Len(tokens) > 0 THEN tokens[1] ELSE @]
  ELSE [r EXCEPT !.pc = "ph_pipe", !.argv = MainArgv(tokens),
                 !.n = have_pipes(MainArgv(tokens)) + 1,
                 !.shin = r.in, !.shout = r.out,
                 !.cname = IF Len(tokens) > 0 THEN tokens[1] ELSE @]

\* fgets() returns a line typed at the terminal.
ReadLine(p) ==
  /\ procs[p].pc = "fgets"
  /\ procs[p].in = Tty
  /\ \E l \in Lines :
       /\ ntok + Len(l) + 1 <= MaxInput
       /\ ntok' = ntok + Len(l) + 1
       /\ procs' = Update(p, Dispatch(procs[p], l))
  /\ pipes' = Collect(procs', pipes)
  /\ nforked' = IF p = 1 THEN 0 ELSE nforked
  /\ nwaited' = IF p = 1 THEN 0 ELSE nwaited
  /\ UNCHANGED <<variant, nfail, resolver, allocator>>

\* fgets() of a process whose standard input is a pipe returns a line of
\* the data an earlier stage wrote.
ReadPipeLine(p) ==
  /\ procs[p].pc = "fgets"
  /\ procs[p].in.obj = "pipe"
  /\ pipes[procs[p].in.id] > 0
  /\ procs' = Update(p, Dispatch(procs[p], DataLine))
  /\ pipes' = Collect(procs', [pipes EXCEPT ![procs[p].in.id] = @ - 1])
  /\ UNCHANGED <<variant, ntok, nforked, nwaited, nfail, resolver, allocator>>

\* fgets() returns NULL: main returns 0.  The terminal may end the input at
\* any time; a file is empty; a pipe is at end-of-file once it is empty
\* and no process holds its write end.
ReadEOF(p) ==
  /\ procs[p].pc = "fgets"
  /\ \/ procs[p].in.obj \in {"tty", "file"}
     \/ /\ procs[p].in.obj = "pipe"
        /\ pipes[procs[p].in.id] = 0
        /\ Writers(procs, procs[p].in.id) = {}
  /\ procs' = Update(p, Zombie(procs[p], 0))
  /\ pipes' = Collect(procs', pipes)
  /\ UNCHANGED <<variant, ntok, nforked, nwaited, nfail, resolver, allocator>>

\* fork() on the path without pipes (shell.c line 385, the basic variant's
\* line 153).  When the kernel refuses, pid is -1 and the process takes
\* the parent's branch.
Fork(p) ==
  /\ procs[p].pc = "m_fork"
  /\ \/ /\ procs' = Forked(p, [procs[p] EXCEPT !.pc = "m_wait", !.cpid = NewPid],
                               [ForkChild(procs[p], p) EXCEPT !.pc = "m_child"])
        /\ nforked' = nforked + 1
        /\ nfail' = nfail
     \/ /\ nfail < MaxFail
        /\ procs' = Update(p, [procs[p] EXCEPT !.pc = "m_wait", !.cpid = 0 - 1])
        /\ nforked' = nforked
        /\ nfail' = nfail + 1
  /\ UNCHANGED <<variant, pipes, ntok, nwaited, resolver, allocator>>

\* ------------------------------------------------------------------- exec
Crash == [kind |-> "crash", prog |-> "", setin |-> FALSE, in |-> Tty,
          setout |-> FALSE, out |-> Tty, eargv |-> <<>>]

Call(e) ==
  [kind |-> IF ExecOK(e.eargv) THEN "run" ELSE "fail",
   prog |-> IF ExecOK(e.eargv) THEN ProgramAt(e.eargv[1]) ELSE "",
   setin |-> e.setin, in |-> e.in, setout |-> e.setout, out |-> e.out,
   eargv |-> e.eargv]

\* A vector with an element that was never assigned is read by strchr,
\* strcmp and execv: the process dies of SIGSEGV, or the garbage is a
\* readable string and execv fails, or execv succeeds: with the program
\* av[1] names when that element was assigned, with any program when the
\* garbage is in its place.
Garbage(av) ==
  {Crash, [Crash EXCEPT !.kind = "fail", !.eargv = av]}
    \cup IF av[1] = Uninit
           THEN {[Crash EXCEPT !.kind = "run", !.prog = q, !.eargv = av] :
                   q \in Installed}
         ELSE IF ExecOK(av)
           THEN {[Crash EXCEPT !.kind = "run", !.prog = ProgramAt(av[1]),
                               !.eargv = av]}
         ELSE {}

\* The child of the path without pipes: execute(argv, argc).
MainOutcomes(argv) == {Call(execute(argv))}

\* The child of the basic variant: cmds is malloc(sizeof(length)) bytes, is
\* written past its end and has no terminating NULL, so execv reads on.
BasicOutcomes(tokens) ==
  {Crash, [Crash EXCEPT !.kind = "fail", !.eargv = tokens]}
    \cup IF Len(tokens) > 0 /\ get_full_path_command(tokens[1]) \in FileSystem
           THEN {[Crash EXCEPT !.kind = "run",
                               !.eargv = [tokens EXCEPT ![1] = get_full_path_command(@)],
                               !.prog = ProgramAt(get_full_path_command(tokens[1]))]}
           ELSE {}

\* A pipeline child: get_full_path_command(&sub_argv[0]); execute(sub_argv).
PipeOutcomes(sub_argv) ==
  IF Len(sub_argv) = 0 THEN {Crash}
  ELSE IF sub_argv[1] = Uninit THEN Garbage(sub_argv)
  ELSE IF \E j \in 1..Len(sub_argv) : sub_argv[j] = Uninit
    THEN Garbage([sub_argv EXCEPT ![1] = get_full_path_command(@)])
  ELSE {Call(execute([sub_argv EXCEPT ![1] = get_full_path_command(@)]))}

\* The descriptors after the redirections of outcome o.
Redirected(r, o) ==
  [r EXCEPT !.in = IF o.setin THEN o.in ELSE @,
            !.out = IF o.setout THEN o.out ELSE @]

\* The process image after a successful execv.
Image(r, o) ==
  [Redirected(r, o) EXCEPT !.pc = "run", !.prog = o.prog, !.eargv = o.eargv,
                           !.todo = CASE o.prog = "seq" -> WriteLen
                                      [] o.prog = "echo" -> 1
                                      [] OTHER -> 0]

\* execv returned: the process goes on in the shell's code at pc, with i.
Returned(r, o, pc, i) ==
  [Redirected(r, o) EXCEPT !.failed = TRUE, !.pc = pc, !.i = i,
                           !.eargv = o.eargv]

\* The record of a call of execute(sargv), after the resolver was handed
\* cname.
Logged(r, cname, sargv) ==
  [r EXCEPT !.cname = cname, !.called = TRUE, !.sargv = sargv,
            !.xin = r.in, !.xout = r.out]

\* The child of the path without pipes (shell.c 386-390, basic 155-170):
\* when execv returns, control leaves the if and reaches the loop's end.
ChildExec(p) ==
  /\ procs[p].pc = "m_child"
  /\ LET q == procs[p]
         r == IF variant = "pipes"
                THEN Logged([q EXCEPT !.sig = signal_default(@), !.reset = TRUE],
                            q.cname, q.argv)
                ELSE Logged(q, IF Len(q.argv) > 0 THEN q.argv[1] ELSE Uninit,
                            q.argv)
     IN \E o \in IF variant = "pipes" THEN MainOutcomes(r.argv)
                  ELSE BasicOutcomes(r.argv) :
          procs' = Update(p,
            CASE o.kind = "run" -> Image(r, o)
              [] o.kind = "crash" -> Zombie(r, SEGV)
              [] OTHER -> Returned(r, o, "m_next", r.i))
  /\ pipes' = Collect(procs', pipes)
  /\ UNCHANGED <<variant, ntok, nforked, nwaited, nfail, resolver, allocator>>

\* The children of process p.
Children(p) == {q \in DOMAIN procs : procs[q].ppid = p}

\* The parent of the path without pipes: waitpid(pid, NULL, 0) in shell.c,
\* wait(&status) in the basic variant.  With pid = -1 the call is for any
\* child, and returns at once (ECHILD) when there is none.
Wait(p) ==
  /\ procs[p].pc = "m_wait"
  /\ IF procs[p].cpid = 0 - 1 /\ Children(p) = {}
       THEN /\ procs' = Update(p, [procs[p] EXCEPT !.pc = "m_next"])
            /\ nwaited' = nwaited
       ELSE \E c \in Children(p) :
              /\ procs[p].cpid \in {c, 0 - 1}
              /\ procs[c].pc = "zombie"
              /\ procs' = Reaped(p, [procs[p] EXCEPT
                             !.pc = "m_next",
                             !.wst = procs[c].xstatus,
                             !.status = IF variant = "basic"
                                          THEN procs[c].xstatus ELSE @], c)
              /\ nwaited' = IF p = 1 THEN nwaited + 1 ELSE nwaited
  /\ UNCHANGED <<variant, pipes, ntok, nforked, nfail, resolver, allocator>>

\* The end of the loop body: the prompt, tokens_destroy, and the locals of
\* the body go out of scope.
LoopTail(p) ==
  /\ procs[p].pc = "m_next"
  /\ procs' = Update(p, [SetLocals(procs[p], Locals) EXCEPT
                 !.pc = "fgets", !.status = NoStatus,
                 !.cname = "", !.called = FALSE, !.sargv = <<>>,
                 !.eargv = <<>>, !.xin = Closed, !.xout = Closed])
  /\ UNCHANGED <<variant, pipes, ntok, nforked, nwaited, nfail, resolver, allocator>>

\* ------------------------------------------------------------ pipe_handler
\* The m smallest pipe ids not in use, in increasing order.
FreshIds(m) ==
  LET cand == (1..(Cardinality(DOMAIN pipes) + m)) \ DOMAIN pipes
      S == {x \in cand : Cardinality({y \in cand : y < x}) < m}
  IN [j \in 1..m |-> CHOOSE x \in S : Cardinality({y \in S : y < x}) = j - 1]

\* pipe_arr[j][end], j a C index.  Pipe ids start at 1; the id 0 stands
\* for a pair of numbers that name no open descriptor.
Fd(r, j, end) == PipeEnd(r.pipe_arr[j + 1], end)

\* Lines 262-271: n - 1 calls of pipe(), then the loop variables.  The
\* kernel may refuse one of the calls (fail is its position, 0 for none):
\* the code prints a message and goes on, and that element of pipe_arr
\* keeps what the stack held, which is a pair of numbers that name no open
\* descriptor (g = 0) or the pair of another pipe of the array.
PipeCreate(p) ==
  /\ procs[p].pc = "ph_pipe"
  /\ LET r == procs[p]
         m == r.n - 1
     IN \E fail \in 0..m :
          /\ fail = 0 \/ nfail < MaxFail
          /\ LET ids == FreshIds(IF fail = 0 THEN m ELSE m - 1)
             IN \E g \in {0} \cup {ids[j] : j \in 1..Len(ids)} :
                  /\ fail = 0 => g = 0
                  /\ procs' = Update(p, [r EXCEPT
                         !.pc = "ph_fork",
                         !.pipe_arr = [j \in 1..m |->
                                         IF j = fail THEN g
                                         ELSE IF fail = 0 \/ j < fail THEN ids[j]
                                         ELSE ids[j - 1]],
                         !.fds = @ \cup {PipeEnd(ids[j], e) :
                                           j \in 1..Len(ids),
                                           e \in {READ_END, WRITE_END}},
                         !.pfail = fail # 0,
                         !.start_index = 0, !.end_index = 0 - 1, !.i = 0])
                  /\ pipes' = [id \in DOMAIN pipes \cup {ids[j] : j \in 1..Len(ids)} |->
                                 IF id \in DOMAIN pipes THEN pipes[id] ELSE 0]
          /\ nfail' = IF fail = 0 THEN nfail ELSE nfail + 1
  /\ UNCHANGED <<variant, ntok, nforked, nwaited, resolver, allocator>>

\* Line 273: fork() for stage i.  When the kernel refuses, pid is -1 and
\* the process takes the parent's branch.
PipeFork(p) ==
  /\ procs[p].pc = "ph_fork"
  /\ \/ /\ procs' = Forked(p, [procs[p] EXCEPT !.pc = "ph_close", !.cpid = NewPid],
                               [ForkChild(procs[p], p) EXCEPT !.pc = "ph_dup"])
        /\ nforked' = nforked + 1
        /\ nfail' = nfail
     \/ /\ nfail < MaxFail
        /\ procs' = Update(p, [procs[p] EXCEPT !.pc = "ph_close", !.cpid = 0 - 1,
                                               !.pfail = TRUE])
        /\ nforked' = nforked
        /\ nfail' = nfail + 1
  /\ UNCHANGED <<variant, pipes, ntok, nwaited, resolver, allocator>>

\* Lines 276-287: the child's dup2 and close calls.
ChildWiring(r) ==
  IF r.i = 0
    THEN close(dup2out(r, Fd(r, 0, WRITE_END)), Fd(r, 0, WRITE_END))
  ELSE IF r.i = r.n - 1
    THEN close(dup2in(r, Fd(r, r.n - 2, READ_END)), Fd(r, r.n - 2, READ_END))
  ELSE close(close(dup2out(dup2in(r, Fd(r, r.i - 1, READ_END)),
                           Fd(r, r.i, WRITE_END)),
                   Fd(r, r.i - 1, READ_END)),
             Fd(r, r.i, WRITE_END))

ChildDup(p) ==
  /\ procs[p].pc = "ph_dup"
  /\ procs' = Update(p, [ChildWiring(procs[p]) EXCEPT
                 !.pc = "ph_exec", !.k = procs[p].start_index])
  /\ pipes' = Collect(procs', pipes)
  /\ UNCHANGED <<variant, ntok, nforked, nwaited, nfail, resolver, allocator>>

\* Where a process goes when the body of the for loop over i ends: the
\* next iteration, or out of pipe_handler to the end of main's loop body.
AfterStage(r) == IF r.i + 1 < r.n THEN "ph_fork" ELSE "m_next"

\* Lines 289-320 in the child.  A stage that is not the last scans for the
\* next "|" from k and calls execute on what it copied; when execute
\* returns the scan goes on, and when the scan ends the child reaches ++i.
\* The last stage calls execute once and reaches ++i when it returns.
ChildPipeExec(p) ==
  /\ procs[p].pc = "ph_exec"
  /\ LET q == procs[p]
         bar == NextBar(q.argv, q.k)
         last == q.i = q.n - 1
         end_index == IF last THEN Len(q.argv) - 1 ELSE bar - 1
         sub_argc == end_index - q.start_index + 1
         sub_argv == IF last THEN TailArgv(q.argv, q.start_index)
                     ELSE SubArgv(q.argv, q.start_index, sub_argc)
         r == Logged(q, IF Len(sub_argv) = 0 THEN Null ELSE sub_argv[1],
                     IF Len(sub_argv) = 0 \/ sub_argv[1] = Uninit THEN sub_argv
                     ELSE [sub_argv EXCEPT ![1] = get_full_path_command(@)])
     IN IF ~last /\ bar = -1
          THEN procs' = Update(p, [q EXCEPT !.pc = AfterStage(q), !.i = q.i + 1])
          ELSE \E o \in PipeOutcomes(sub_argv) :
                 procs' = Update(p,
                   CASE o.kind = "run" -> Image([r EXCEPT !.end_index = end_index], o)
                     [] o.kind = "crash" -> Zombie(r, SEGV)
                     [] last -> Returned([r EXCEPT !.end_index = end_index], o,
                                         AfterStage(r), r.i + 1)
                     [] OTHER -> [Returned([r EXCEPT !.end_index = end_index], o,
                                           "ph_exec", r.i) EXCEPT !.k = bar + 1])
  /\ pipes' = Collect(procs', pipes)
  /\ UNCHANGED <<variant, ntok, nforked, nwaited, nfail, resolver, allocator>>

\* The parent's close calls with the last stage closing the write end of
\* pipe n-2 a second time instead of its read end.
ParentWiring_WrongEnd(r) ==
  IF r.i = 0
    THEN close(r, Fd(r, 0, WRITE_END))
  ELSE IF r.i = r.n - 1
    THEN close(r, Fd(r, r.n - 2, WRITE_END))
  ELSE close(close(r, Fd(r, r.i - 1, READ_END)), Fd(r, r.i, WRITE_END))

\* Lines 323-330: the parent's close calls for stage i.
ParentWiring(r) ==
  IF r.i = 0
    THEN close(r, Fd(r, 0, WRITE_END))
  ELSE IF r.i = r.n - 1
    THEN close(r, Fd(r, r.n - 2, READ_END))
  ELSE close(close(r, Fd(r, r.i - 1, READ_END)), Fd(r, r.i, WRITE_END))

ParentClose(p) ==
  /\ procs[p].pc = "ph_close"
  /\ procs' = Update(p, [ParentWiring(procs[p]) EXCEPT !.pc = "ph_wait"])
  /\ pipes' = Collect(procs', pipes)
  /\ UNCHANGED <<variant, ntok, nforked, nwaited, nfail, resolver, allocator>>

\* Lines 333-339: the parent moves start_index past the next "|".
Advance(r) ==
  LET bar == NextBar(r.argv, r.start_index)
  IN IF bar = -1 THEN r
     ELSE [r EXCEPT !.end_index = bar - 1, !.start_index = bar + 1]

\* Line 332: waitpid(pid, NULL, 0) for the child just forked, then the
\* scan, then ++i.  With pid = -1 the call is for any child, and returns
\* at once (ECHILD) when there is none.
PipeWait(p) ==
  /\ procs[p].pc = "ph_wait"
  /\ IF procs[p].cpid = 0 - 1 /\ Children(p) = {}
       THEN /\ procs' = Update(p, [Advance(procs[p]) EXCEPT
                           !.pc = AfterStage(procs[p]), !.i = @ + 1])
            /\ nwaited' = nwaited
       ELSE \E c \in Children(p) :
              /\ procs[p].cpid \in {c, 0 - 1}
              /\ procs[c].pc = "zombie"
              /\ procs' = Reaped(p, [Advance(procs[p]) EXCEPT
                             !.pc = AfterStage(procs[p]), !.i = @ + 1,
                             !.wst = procs[c].xstatus], c)
              /\ nwaited' = IF p = 1 THEN nwaited + 1 ELSE nwaited
  /\ UNCHANGED <<variant, pipes, ntok, nforked, nfail, resolver, allocator>>

\* --------------------------------------------------------------- programs
\* seq or echo writes one line: to a pipe nobody can read it dies of
\* SIGPIPE, to a full pipe it blocks, anywhere else the write succeeds.
ProgWrite(p) ==
  /\ procs[p].pc = "run"
  /\ procs[p].prog \in {"seq", "echo"}
  /\ procs[p].todo > 0
  /\ LET r == procs[p] IN
     IF r.out.obj = "pipe" /\ Readers(procs, r.out.id) = {}
       THEN /\ procs' = Update(p, Zombie(r, EPIPE))
            /\ pipes' = Collect(procs', pipes)
     ELSE IF r.out.obj = "pipe"
       THEN /\ pipes[r.out.id] < PipeCap
            /\ procs' = Update(p, [r EXCEPT !.todo = @ - 1])
            /\ pipes' = [pipes EXCEPT ![r.out.id] = @ + 1]
     ELSE /\ procs' = Update(p, [r EXCEPT !.todo = @ - 1])
          /\ pipes' = pipes
  /\ UNCHANGED <<variant, ntok, nforked, nwaited, nfail, resolver, allocator>>

\* wc takes one line from its pipe.
ProgRead(p) ==
  /\ procs[p].pc = "run"
  /\ procs[p].prog = "wc"
  /\ procs[p].in.obj = "pipe"
  /\ pipes[procs[p].in.id] > 0
  /\ pipes' = [pipes EXCEPT ![procs[p].in.id] = @ - 1]
  /\ UNCHANGED <<variant, procs, ntok, nforked, nwaited, nfail, resolver, allocator>>

\* A program ends: false at once with 1, seq and echo with 0 when they
\* have written everything, wc with 0 at end-of-file.
ProgDone(r) ==
  CASE r.prog = "false" -> TRUE
    [] r.prog \in {"seq", "echo"} -> r.todo = 0
    [] OTHER -> \/ r.in.obj \in {"tty", "file"}
                \/ /\ r.in.obj = "pipe"
                   /\ pipes[r.in.id] = 0
                   /\ Writers(procs, r.in.id) = {}

ProgExit(p) ==
  /\ procs[p].pc = "run"
  /\ ProgDone(procs[p])
  /\ procs' = Update(p, Zombie(procs[p], IF procs[p].prog = "false" THEN 1 ELSE 0))
  /\ pipes' = Collect(procs', pipes)
  /\ UNCHANGED <<variant, ntok, nforked, nwaited, nfail, resolver, allocator>>

\* ------------------------------------------------------------ the system
Next ==
  \/ \E p \in DOMAIN procs : InitShell(p)
  \/ \E p \in DOMAIN procs : ReadLine(p)
  \/ \E p \in DOMAIN procs : ReadPipeLine(p)
  \/ \E p \in DOMAIN procs : ReadEOF(p)
  \/ \E p \in DOMAIN procs : Fork(p)
  \/ \E p \in DOMAIN procs : ChildExec(p)
  \/ \E p \in DOMAIN procs : Wait(p)
  \/ \E p \in DOMAIN procs : LoopTail(p)
  \/ \E p \in DOMAIN procs : PipeCreate(p)
  \/ \E p \in DOMAIN procs : PipeFork(p)
  \/ \E p \in DOMAIN procs : ChildDup(p)
  \/ \E p \in DOMAIN procs : ChildPipeExec(p)
  \/ \E p \in DOMAIN procs : ParentClose(p)
  \/ \E p \in DOMAIN procs : PipeWait(p)
  \/ \E p \in DOMAIN procs : ProgWrite(p)
  \/ \E p \in DOMAIN procs : ProgRead(p)
  \/ \E p \in DOMAIN procs : ProgExit(p)

Spec == Init /\ [][Next]_vars

\* ------------------------------------------------------------ the resolver
\* One call of get_full_path_command (shell.c) or get_full_file_path (the
\* variant without pipes), for any value of PATH and any name.
\* Longest PATH, in directories.
MaxPath == 3
\* sizeof(char*) and sizeof(int) of the build: what the variant without
\* pipes passes to malloc for full_path and for each cmds[i].
PointerSize == 8
IntSize == 4
\* A directory whose name is longer than PointerSize; it holds no file.
LongDir == "/usr/local/bin"
Dirs == {OptDir, PathDir, ".", LongDir}
PathValues == UNION {[1..m -> Dirs] : m \in 0..MaxPath}
Names == BareNames \cup {DirPath(".", "here"), FullPath("wc")}

\* The positions in dirs of the directories that hold a file called name.
FoundIn(dirs, name) ==
  {j \in 1..Len(dirs) : DirPath(dirs[j], name) \in FileSystem}

\* The number of tokens the strtok loop takes from a buffer that holds
\* dirs: up to the first directory where access() succeeds, or all.
Walk(dirs, name) ==
  IF FoundIn(dirs, name) = {} THEN Len(dirs)
  ELSE CHOOSE j \in FoundIn(dirs, name) : \A h \in FoundIn(dirs, name) : j <= h

\* What the resolver leaves in *command / filename.
Resolve(dirs, name) ==
  IF HasSlash(name) \/ FoundIn(dirs, name) = {} THEN name
  ELSE DirPath(dirs[Walk(dirs, name)], name)

\* strtok writes a NUL over the ':' that ends each token it returns: once
\* a token was taken from a string of two or more directories, a reader of
\* the string sees the first directory only.
strtok(s, k) == IF k >= 1 /\ Len(s) >= 2 THEN <<s[1]>> ELSE s

\* The string handed to strtok, were it the one getenv returned.
StrtokBuffer_Path == "path"

\* The string handed to strtok (shell.c line 164, part_000 line 115).
StrtokBuffer == "path_copy"

\* Lines 157-159 (part_000 111-114), then the loop, on the strings s.
Tokenized(s, name) ==
  LET copied == [s EXCEPT !.path_copy = s.path]
      k == IF HasSlash(name) THEN 0 ELSE Walk(copied[StrtokBuffer], name)
  IN [copied EXCEPT ![StrtokBuffer] = strtok(@, k)]

\* get_full_path_command, shell.c lines 157-183.
CallGetFullPathCommand ==
  /\ variant = "pipes"
  /\ rpc = "call"
  /\ str' = Tokenized(str, command)
  /\ command' = Resolve(str.path, command)
  /\ rpc' = "ret"
  /\ UNCHANGED <<variant, procs, pipes, ntok, nforked, nwaited, nfail, allocator>>

\* get_full_file_path writes past the end of a heap block when a directory
\* it visits is longer than sizeof(path_split) (line 117, then strcpy), and
\* when the full path it found does not fit the sizeof(CMD_SIZE) bytes of
\* cmds[0] (main line 160, strcpy at line 123).
Overflows(dirs, name) ==
  /\ ~HasSlash(name)
  /\ \/ \E j \in 1..Walk(dirs, name) : Len(dirs[j]) > PointerSize
     \/ FoundIn(dirs, name) # {} /\ Len(Resolve(dirs, name)) + 1 > IntSize

\* get_full_file_path, part_000 lines 107-131.  A write past the end of a
\* heap block damages the heap, of which path_copy is a part, or nothing:
\* the call returns or the process dies.  The environment's strings are on
\* the stack segment, which the few bytes written do not reach.
CallGetFullFilePath ==
  /\ variant = "basic"
  /\ rpc = "call"
  /\ IF Overflows(str.path, command)
       THEN /\ rpc' \in {"ret", "crash"}
            /\ str' \in {Tokenized(str, command),
                         [Tokenized(str, command) EXCEPT !.path_copy = <<Uninit>>]}
       ELSE /\ rpc' = "ret"
            /\ str' = Tokenized(str, command)
  /\ command' = Resolve(str.path, command)
  /\ UNCHANGED <<variant, procs, pipes, ntok, nforked, nwaited, nfail, allocator>>

ResolveInit ==
  /\ variant \in {"pipes", "basic"}
  /\ ShellStart
  /\ EmptyHeap
  /\ \E p \in PathValues : str = [path |-> p, path_copy |-> <<>>]
  /\ command \in Names
  /\ rpc = "call"

ResolveNext == CallGetFullPathCommand \/ CallGetFullFilePath

ResolveSpec == ResolveInit /\ [][ResolveNext]_vars

\* ----------------------------------------------------------- the allocator
\* hw-memory/mm_alloc: a list of blocks, each a header followed by its
\* data, all obtained from sbrk, which hands out adjacent memory.
\* The most bytes sbrk hands out before it fails (RLIMIT_DATA).
MaxHeap == 256
\* The width of size_t in bits (64 in the build): sizes are kept modulo
\* 2^SizeWidth.
SizeWidth == 12
\* sizeof(block): size_t, bool and padding, two pointers.
metasize == 32
NULL == 0
\* The program break before the first sbrk call: any address but NULL.
HeapStart == metasize
\* The sizes a caller asks for: nothing, less than a header, more than a
\* header, enough to be split, and one so large that metasize + size
\* exceeds the largest size_t.
HugeSize == 2^SizeWidth - 16
Sizes == {0, 16, 40, 100, HugeSize}

\* cur->data of the block whose header is at b, and back (line 72, 89).
Data(b) == b + metasize
Header(ptr) == ptr - metasize

\* The allocator's memory as one value, for the C functions below.
Memory == [list |-> list, heap |-> heap, brk |-> brk, fault |-> fault]

Without(h, b) == [a \in DOMAIN h \ {b} |-> h[a]]
With(h, b, hdr) == [a \in DOMAIN h \cup {b} |-> IF a = b THEN hdr ELSE h[a]]

\* Lines 21-44: the first free block of at least size bytes, from cur on.
RECURSIVE FirstFit(_, _, _)
FirstFit(h, cur, size) ==
  IF cur = NULL THEN NULL
  ELSE IF h[cur].free /\ h[cur].size >= size THEN cur
  ELSE FirstFit(h, h[cur].next, size)

\* Lines 21-44: prev when the loop has run to the end of the list.
RECURSIVE LastBlock(_, _, _)
LastBlock(h, cur, prev) ==
  IF cur = NULL THEN prev ELSE LastBlock(h, h[cur].next, cur)

\* The size of the free block a split leaves, with the header uncounted.
SplitSize_Whole(remain) == remain

\* Line 35: split_block->size.
SplitSize(remain) == remain - metasize

\* Lines 23-40: block cur is taken for size bytes, split when what remains
\* is more than a header.
TakeBlock(h, cur, size) ==
  LET remain == h[cur].size - size
      split_block == Data(cur) + size
      next == h[cur].next
      h1 == With(h, split_block,
                 [size |-> SplitSize(remain), free |-> TRUE,
                  next |-> next, prev |-> cur])
      h2 == [h1 EXCEPT ![cur].size = size, ![cur].next = split_block]
      h3 == IF next # NULL THEN [h2 EXCEPT ![next].prev = split_block] ELSE h2
  IN IF remain > metasize THEN [h3 EXCEPT ![cur].free = FALSE]
     ELSE [h EXCEPT ![cur].free = FALSE]

\* mm_malloc, lines 13-62: the memory afterwards and the pointer returned.
\* sbrk is asked for (metasize + size) modulo 2^SizeWidth bytes; when the
\* sum wrapped, the header and the memset of line 60 run past the break.
mm_malloc(m, size) ==
  LET cur == FirstFit(m.heap, m.list, size)
      prev == LastBlock(m.heap, m.list, NULL)
      request == (metasize + size) % 2^SizeWidth
      new == HeapStart + m.brk
      linked == IF prev = NULL THEN m.heap
                ELSE [m.heap EXCEPT ![prev].next = new]
      grown == [m EXCEPT
                  !.brk = @ + request,
                  !.list = IF prev = NULL THEN new ELSE @,
                  !.heap = With(linked, new,
                                [size |-> size, free |-> FALSE,
                                 next |-> NULL, prev |-> prev])]
  IN IF size = 0 THEN [m |-> m, ret |-> NULL]
     ELSE IF cur # NULL
       THEN [m |-> [m EXCEPT !.heap = TakeBlock(m.heap, cur, size)],
             ret |-> Data(cur)]
     ELSE IF m.brk + request > MaxHeap THEN [m |-> m, ret |-> NULL]
     ELSE IF request < metasize + size
       THEN [m |-> [grown EXCEPT !.fault = "overrun"], ret |-> NULL]
     ELSE [m |-> grown, ret |-> Data(new)]

\* Lines 95-100: while the block before b is free, it takes b in.  Line 99
\* follows b->next without a test.
RECURSIVE MergePrev(_, _)
MergePrev(m, b) ==
  LET h == m.heap
      p == h[b].prev
      nn == h[b].next
      h1 == Without([h EXCEPT ![p].size = @ + h[b].size + metasize,
                              ![p].next = nn], b)
  IN IF p = NULL \/ ~h[p].free THEN [m |-> m, b |-> b]
     ELSE IF nn = NULL
       THEN [m |-> [m EXCEPT !.heap = h1, !.fault = "null"], b |-> p]
     ELSE MergePrev([m EXCEPT !.heap = [h1 EXCEPT ![nn].prev = p]], p)

\* Lines 102-109: while the block after b is free, b takes it in.
RECURSIVE MergeNext(_, _)
MergeNext(m, b) ==
  LET h == m.heap
      next_block == h[b].next
      nn == h[next_block].next
      h1 == Without([h EXCEPT ![b].size = @ + h[next_block].size + metasize,
                              ![b].next = nn], next_block)
      h2 == IF nn # NULL THEN [h1 EXCEPT ![nn].prev = b] ELSE h1
  IN IF next_block = NULL \/ ~h[next_block].free THEN m
     ELSE MergeNext([m EXCEPT !.heap = h2], b)

\* mm_free, lines 85-112.  The header of a block taken in stays where it
\* was, inside the data of the block that took it; no list pointer leads
\* to it any more and heap no longer holds it.
mm_free(m, ptr) ==
  LET b == Header(ptr)
      freed == [m EXCEPT !.heap[b].free = TRUE]
      merged == MergePrev(freed, b)
  IN IF ptr = NULL THEN m
     ELSE IF merged.m.fault # "" THEN merged.m
     ELSE MergeNext(merged.m, merged.b)

\* mm_realloc, lines 64-83.
mm_realloc(m, ptr, size) ==
  LET got == mm_malloc(m, size)
  IN IF ptr = NULL THEN got
     ELSE IF size = 0 THEN [m |-> mm_free(m, ptr), ret |-> NULL]
     ELSE IF m.heap[Header(ptr)].size >= size THEN [m |-> m, ret |-> ptr]
     ELSE IF got.ret = NULL THEN got
     ELSE [m |-> mm_free(got.m, ptr), ret |-> got.ret]

\* The caller's pointers after a call that was handed ptr (NULL for
\* mm_malloc), freed it or not, and returned ret for size bytes.
Holding(ptr, gone, ret, size) ==
  LET kept == IF gone THEN DOMAIN held \ {ptr} ELSE DOMAIN held
  IN [q \in kept \cup (IF ret = NULL THEN {} ELSE {ret}) |->
        IF q = ret THEN size ELSE held[q]]

Store(m) ==
  /\ list' = m.list
  /\ heap' = m.heap
  /\ brk' = m.brk
  /\ fault' = m.fault

\* The caller calls mm_malloc(size).
Malloc ==
  /\ fault = ""
  /\ \E size \in Sizes :
       LET r == mm_malloc(Memory, size)
       IN /\ Store(r.m)
          /\ held' = Holding(NULL, FALSE, r.ret, size)
  /\ UNCHANGED <<variant, procs, pipes, ntok, nforked, nwaited, nfail, resolver>>

\* The caller calls mm_free on NULL or on a pointer it holds.
Free ==
  /\ fault = ""
  /\ \E ptr \in DOMAIN held \cup {NULL} :
       /\ Store(mm_free(Memory, ptr))
       /\ held' = Holding(ptr, TRUE, NULL, 0)
  /\ UNCHANGED <<variant, procs, pipes, ntok, nforked, nwaited, nfail, resolver>>

\* The caller calls mm_realloc on NULL or on a pointer it holds.
Realloc ==
  /\ fault = ""
  /\ \E ptr \in DOMAIN held \cup {NULL}, size \in Sizes :
       LET r == mm_realloc(Memory, ptr, size)
       IN /\ Store(r.m)
          /\ held' = Holding(ptr, size = 0 \/ r.ret \notin {NULL, ptr},
                              r.ret, size)
  /\ UNCHANGED <<variant, procs, pipes, ntok, nforked, nwaited, nfail, resolver>>

AllocInit ==
  /\ variant = "pipes"
  /\ ShellStart
  /\ NoResolverCall
  /\ EmptyHeap

AllocNext == Malloc \/ Free \/ Realloc

AllocSpec == AllocInit /\ [][AllocNext]_vars

\* ------------------------------------------------------------------ claims
\* Positions of the parent inside pipe_handler.
InPipeHandler == {"ph_pipe", "ph_fork", "ph_close", "ph_wait"}

\* C1: a child whose execv returned (resolution or exec failed) has
\* terminated with a non-zero status: it is nowhere in the shell's code,
\* so it runs no further iteration of the stage loop, forks nothing, waits
\* for nothing and reads no line.
C1_FailedChildTerminates ==
  \A p \in DOMAIN procs :
    procs[p].failed =>
      /\ procs[p].pc = "zombie"
      /\ procs[p].xstatus # 0

\* C2: pipe_handler waits for no child before all n stages are launched:
\* whenever a process is at waitpid in pipe_handler, the fork of the last
\* stage (i = n - 1) has been made.
C2_WaitOnlyAfterAllLaunched ==
  \A p \in DOMAIN procs :
    procs[p].pc = "ph_wait" => procs[p].i = procs[p].n - 1

\* C3: while the interpreter runs the 2-stage pipeline "seq | wc", whose
\* first stage writes more than the pipe buffers and whose second stage
\* reads to end-of-file, some process can always take a step: the shell is
\* never left waiting for a writer that is blocked on a full pipe whose
\* reader was not launched.
C3_WriterReaderPipelineRuns ==
  ( /\ variant = "pipes"
    /\ nfail = 0
    /\ procs[1].pc \in InPipeHandler
    /\ procs[1].argv = <<FullPath("seq"), "|", "wc">> )
  => ENABLED Next

\* C4: when the interpreter is back at the end of its loop body after an
\* n-stage line, exactly n processes were created while it handled the
\* line, it made exactly n wait-collections, and no other process is left.
C4_ExactlyNProcesses ==
  (variant = "pipes" /\ nfail = 0 /\ procs[1].pc = "m_next") =>
    /\ nforked = procs[1].n
    /\ nwaited = procs[1].n
    /\ DOMAIN procs = {1}

\* Number of close() calls process record r made on descriptor d.
CloseCount(r, d) == Cardinality({j \in 1..Len(r.closed) : r.closed[j] = d})

\* C5: when pipe_handler has returned in the interpreter for n >= 2 stages
\* and the kernel refused none of its calls,
\* it has created n - 1 distinct pipes, and each of their 2(n-1) descriptors
\* was closed exactly once by the interpreter and is no longer open in it.
C5_PipeDescriptorsClosedOnce ==
  (nfail = 0 /\ procs[1].pc = "m_next" /\ procs[1].n >= 2) =>
    LET r == procs[1] IN
    /\ Len(r.pipe_arr) = r.n - 1
    /\ \A a, b \in 1..Len(r.pipe_arr) : a # b => r.pipe_arr[a] # r.pipe_arr[b]
    /\ Len(r.closed) = 2 * (r.n - 1)
    /\ \A j \in 0..(r.n - 2) : \A e \in {READ_END, WRITE_END} :
         /\ CloseCount(r, Fd(r, j, e)) = 1
         /\ Fd(r, j, e) \notin r.fds
    /\ r.fds = {}

C5_Witness ==
  /\ nfail = 0
  /\ procs[1].pc = "m_next"
  /\ procs[1].n = 3
  /\ Len(procs[1].closed) = 4

\* C6: while the interpreter runs a 3-stage pipeline whose middle stage
\* failed to exec, some process can always take a step (the supervisor and
\* the other stages are not left hanging on an unclosed pipe end).
C6_MiddleFailureDoesNotHang ==
  ( /\ variant = "pipes"
    /\ nfail = 0
    /\ procs[1].pc \in InPipeHandler
    /\ procs[1].n = 3
    /\ \E q \in DOMAIN procs :
         procs[q].ppid = 1 /\ procs[q].stage = 1 /\ procs[q].failed )
  => ENABLED Next

\* The tokens of stage i (from 0) of a line: those between the i-th and
\* the (i+1)-th "|".
StageTokens(argv, i) ==
  LET bars == {j \in 1..Len(argv) : argv[j] = "|"}
      before(j) == Cardinality({b \in bars : b < j})
  IN SelectSeq([j \in 1..Len(argv) |-> <<j, argv[j]>>],
               LAMBDA x : x[2] # "|" /\ before(x[1]) = i)

\* The file a stage's first redirection operator names, when that operator
\* is op and the file can be opened: a one-element set, otherwise empty.
RedirectedTo(stage, op) ==
  LET ops == {j \in 1..Len(stage) : stage[j][2] \in {"<", ">"}}
  IN IF ops = {} THEN {}
     ELSE LET j == CHOOSE x \in ops : \A y \in ops : x <= y
          IN IF stage[j][2] = op /\ j < Len(stage)
                  /\ stage[j + 1][2] \notin Unopenable
               THEN {File(stage[j + 1][2])} ELSE {}

\* C7: every exec'd process of a pipeline of n >= 2 stages has, as stage i,
\* its standard input on the read end of pipe i-1 (the shell's own standard
\* input for stage 0) and its standard output on the write end of pipe i
\* (the shell's own standard output for stage n-1), unless the stage's
\* redirection opened a file for that direction, which then replaces it.
C7_StageWiring ==
  \A p \in DOMAIN procs :
    (variant = "pipes" /\ nfail = 0 /\ procs[p].pc = "run" /\ procs[p].n >= 2) =>
      LET r == procs[p]
          stage == StageTokens(r.argv, r.stage)
          rin == RedirectedTo(stage, "<")
          rout == RedirectedTo(stage, ">")
      IN /\ r.in = IF rin # {} THEN CHOOSE f \in rin : TRUE
                    ELSE IF r.stage > 0 THEN Fd(r, r.stage - 1, READ_END)
                    ELSE r.shin
         /\ r.out = IF rout # {} THEN CHOOSE f \in rout : TRUE
                     ELSE IF r.stage < r.n - 1 THEN Fd(r, r.stage, WRITE_END)
                     ELSE r.shout

\* C8: when the interpreter is back at the end of its loop body, the status
\* it holds for the line is the exit status of the last stage, as the
\* kernel handed it to the wait call.
C8_ResultIsLastStageStatus ==
  (variant = "pipes" /\ nfail = 0 /\ procs[1].pc = "m_next") =>
    /\ procs[1].wst # NoStatus
    /\ procs[1].status = procs[1].wst

\* C9: whenever the interpreter, past init_shell, is reading a command
\* line, SIGINT, SIGQUIT, SIGTSTP, SIGCONT, SIGTTIN and SIGTTOU are ignored
\* in it.
C9_InterpreterIgnoresJobSignals ==
  (variant = "pipes" /\ procs[1].pc = "fgets") =>
    \A s \in JobSignals : procs[1].sig[s] = "SIG_IGN"

\* C10: every exec'd child called signal_default before execv, so that the
\* job-control and interrupt signals have default disposition in it.
C10_ChildResetsSignals ==
  \A p \in DOMAIN procs :
    (variant = "pipes" /\ procs[p].pc = "run") =>
      /\ procs[p].reset
      /\ \A s \in JobSignals : procs[p].sig[s] = "SIG_DFL"

\* The PATH directories, by position, that hold a file named c.
DirsWith(c) == {j \in 1..Len(PATH) : DirPath(PATH[j], c) \in FileSystem}

\* A name a process handed to the resolver: a string, not a null or
\* unassigned pointer.
IsName(c) == c \in BareNames \/ HasSlash(c)

\* C11: a process that was exec'd after the resolver was handed the name c
\* runs the file c itself when c contains '/', and otherwise the file
\* dir/c of the first PATH directory, in list order, that holds a file c.
C11_ResolutionOrder ==
  \A p \in DOMAIN procs :
    LET r == procs[p]
        c == r.cname
    IN (r.pc = "run" /\ IsName(c) /\ (HasSlash(c) \/ DirsWith(c) # {})) =>
         LET path == IF HasSlash(c) THEN c
                     ELSE DirPath(PATH[CHOOSE j \in DirsWith(c) :
                                         \A h \in DirsWith(c) : j <= h], c)
         IN /\ r.eargv[1] = path
            /\ r.prog = ProgramAt(path)

C11_Witness ==
  \E p \in DOMAIN procs :
    /\ procs[p].pc = "run"
    /\ procs[p].cname = "false"
    /\ Cardinality(DirsWith("false")) = 2
    /\ procs[p].eargv[1] = DirPath(OptDir, "false")

\* C12: a process that handed the resolver a name without '/' that no PATH
\* directory holds makes no execv call: neither one that fails nor one
\* that runs the file of that name in the working directory.
C12_UnresolvedNeverExecd ==
  \A p \in DOMAIN procs :
    LET r == procs[p]
    IN (r.cname \in BareNames /\ DirsWith(r.cname) = {}) =>
         /\ r.pc # "run"
         /\ r.eargv = <<>>

\* The position of the first '<' or '>' of a vector, 0 when it has none.
FirstOp(av) ==
  LET ops == {j \in 1..Len(av) : av[j] = "<" \/ av[j] = ">"}
  IN IF ops = {} THEN 0 ELSE CHOOSE j \in ops : \A h \in ops : j <= h

\* C13: a child of shell.c that called execute with a vector whose first
\* redirection names a file that open refuses has run no program and has
\* terminated with a non-zero status.
C13_FailedOpenAbortsStage ==
  \A p \in DOMAIN procs :
    LET r == procs[p]
        idx == FirstOp(r.sargv)
    IN ( /\ variant = "pipes"
         /\ idx > 0 /\ idx < Len(r.sargv)
         /\ r.sargv[idx + 1] \in Unopenable ) =>
         /\ r.prog = ""
         /\ r.pc = "zombie"
         /\ r.xstatus # 0

\* C17: a process of shell.c that was exec'd through a vector with a
\* redirection operator got exactly the tokens before the first operator
\* as its argument vector; the token after that operator, when there is
\* one and it can be opened, is the file on its standard input (for '<')
\* or output (for '>'), and the other direction is what it was before the
\* call, whatever follows the operator and the file name.
C17_FirstRedirectionOnly ==
  \A p \in DOMAIN procs :
    LET r == procs[p]
        idx == FirstOp(r.sargv)
        opened == idx < Len(r.sargv) /\ r.sargv[idx + 1] \notin Unopenable
    IN ( /\ variant = "pipes"
         /\ r.pc = "run"
         /\ idx > 0
         /\ \A j \in 1..Len(r.sargv) : r.sargv[j] # Uninit ) =>
         /\ r.eargv = SubSeq(r.sargv, 1, idx - 1)
         /\ r.in = IF r.sargv[idx] = "<" /\ opened
                     THEN File(r.sargv[idx + 1]) ELSE r.xin
         /\ r.out = IF r.sargv[idx] = ">" /\ opened
                      THEN File(r.sargv[idx + 1]) ELSE r.xout

C17_Witness ==
  \E p \in DOMAIN procs :
    /\ variant = "pipes"
    /\ procs[p].pc = "run"
    /\ procs[p].sargv = <<FullPath("wc"), "<", "ok", ">", "out">>
    /\ procs[p].eargv = <<FullPath("wc")>>
    /\ procs[p].in = File("ok")
    /\ procs[p].out = Tty

\* C18: a child of shell.c that called execute with a vector whose first
\* redirection operator is its last token has run no program and has
\* terminated with a non-zero status.
C18_MissingTargetIsError ==
  \A p \in DOMAIN procs :
    LET r == procs[p]
        idx == FirstOp(r.sargv)
    IN (variant = "pipes" /\ idx > 0 /\ idx = Len(r.sargv)) =>
         /\ r.prog = ""
         /\ r.pc = "zombie"
         /\ r.xstatus # 0

\* The vector stage i of a line is to be run with: the tokens of the i-th
\* segment, the command name resolved.
StageVector(argv, i) ==
  LET st == StageTokens(argv, i)
      seg == [j \in 1..Len(st) |-> st[j][2]]
  IN IF Len(seg) = 0 THEN seg
     ELSE [seg EXCEPT ![1] = get_full_path_command(@)]

\* C15: a child the interpreter forked for stage i of a pipeline, in its
\* first call of execute (the program runs, or execv returned), handed it
\* exactly the tokens of the i-th segment, every element assigned.
C15_StageArgumentVector ==
  \A p \in DOMAIN procs :
    LET r == procs[p]
    IN ( /\ variant = "pipes"
         /\ r.ppid = 1
         /\ nfail = 0
         /\ r.n >= 2
         /\ r.pc = "run" \/ (r.failed /\ r.called)
         /\ \/ r.stage = r.n - 1
            \/ r.end_index = NextBar(r.argv, r.start_index) - 1 ) =>
         /\ \A j \in 1..Len(r.sargv) : r.sargv[j] # Uninit
         /\ r.sargv = StageVector(r.argv, r.stage)

\* C16: an exec'd stage of a pipeline holds no pipe descriptor besides its
\* standard input and its standard output.
C16_ChildHoldsOnlyItsPipeEnds ==
  \A p \in DOMAIN procs :
    (variant = "pipes" /\ nfail = 0 /\ procs[p].pc = "run" /\ procs[p].n >= 2) =>
      procs[p].fds = {}

\* C19: a child of shell.c whose stage has no tokens (an empty line, a '|'
\* at either end, two adjacent '|') ends as a failed stage: it hands the
\* resolver no null or unassigned name, and it calls execv with no null
\* path (it is not exec'd and execv has not returned in it).
C19_EmptyStageIsNotFound ==
  \A p \in DOMAIN procs :
    LET r == procs[p]
    IN (variant = "pipes" /\ r.called /\ r.sargv = <<>>) =>
         /\ r.cname # Null
         /\ r.cname # Uninit
         /\ r.pc # "run"
         /\ ~r.failed

\* C20: once a pipe() or fork() call of pipe_handler was refused, the
\* pipeline is given up: no child is launched after the refusal (no child
\* is at its dup2 calls, at execute or exec'd with the refusal behind it),
\* close() is called on no pipe_arr element that pipe() never filled, and
\* there is no waitpid for the pid -1 that the refused fork() returned.
C20_ResourceFailureAbortsPipeline ==
  \A p \in DOMAIN procs :
    LET r == procs[p]
    IN (variant = "pipes" /\ r.pfail) =>
         /\ r.pc \notin {"ph_dup", "ph_exec", "run"}
         /\ \A j \in 1..Len(r.closed) :
              r.closed[j] \notin {PipeEnd(0, READ_END), PipeEnd(0, WRITE_END)}
         /\ r.pc \in {"ph_wait", "m_wait"} => r.cpid # 0 - 1

\* A stage of the line the interpreter is handling went wrong: a pipe() or
\* fork() call was refused, or execv returned in some process.
PipelineError ==
  \/ nfail > 0
  \/ \E q \in DOMAIN procs : procs[q].failed

\* C14: the interpreter of shell.c ends only with status 0 (the exit
\* built-in, or end of input), and while it handles a line of which a stage
\* went wrong some process can always take a step, so that it comes back
\* to read the next line.  Lines that run seq are left out: its writer
\* blocks on a full pipe whether or not a stage went wrong.
C14_InterpreterSurvivesErrors ==
  /\ (variant = "pipes" /\ procs[1].pc = "zombie") => procs[1].xstatus = 0
  /\ ( /\ variant = "pipes"
       /\ procs[1].pc \in InPipeHandler \cup {"m_wait"}
       /\ PipelineError
       /\ \A q \in DOMAIN procs : procs[q].prog # "seq" )
     => ENABLED Next

\* C21: a call of get_full_path_command or get_full_file_path that returns
\* leaves the value of PATH in the environment as it was before the call,
\* for every name and every value of PATH, whether or not the name was
\* found.
C21_ResolutionKeepsEnvironment ==
  [][(rpc = "call" /\ rpc' = "ret") => str'.path = str.path]_vars

\* The resolver has returned the path of a file it found in a directory of
\* PATH, and strtok has cut the copy it worked on.
C21_Witness ==
  /\ rpc = "ret"
  /\ HasSlash(command)
  /\ command \in FileSystem
  /\ Len(str.path) >= 2
  /\ str.path_copy = <<str.path[1]>>

\* The headers the list leads to, in list order.
RECURSIVE BlockList(_, _)
BlockList(h, cur) ==
  IF cur = NULL THEN <<>> ELSE <<cur>> \o BlockList(h, h[cur].next)

\* C22: no call of mm_malloc, mm_realloc or mm_free on valid pointers
\* follows a null neighbour link, every block that has a successor is the
\* predecessor of its successor, and no two adjacent blocks of the list
\* are both free.
C22_BlockListConsistent ==
  LET bl == BlockList(heap, list)
  IN /\ fault # "null"
     /\ \A j \in 1..Len(bl) :
          heap[bl[j]].next # NULL => heap[heap[bl[j]].next].prev = bl[j]
     /\ \A j \in 1..(Len(bl) - 1) :
          ~(heap[bl[j]].free /\ heap[bl[j + 1]].free)

RECURSIVE BlockBytes(_, _)
BlockBytes(h, bl) ==
  IF bl = <<>> THEN 0 ELSE metasize + h[Head(bl)].size + BlockBytes(h, Tail(bl))

\* C23: while the process lives, the headers and data of the blocks of the
\* list add up to the bytes obtained from sbrk, every pointer the caller
\* holds is the data of a block that is not free and has at least the
\* size asked for, and the data of two blocks that are not free do not
\* overlap.
C23_SpaceAccounting ==
  fault = "" =>
    LET bl == BlockList(heap, list)
        blocks == {bl[j] : j \in 1..Len(bl)}
        used == {b \in blocks : ~heap[b].free}
    IN /\ BlockBytes(heap, bl) = brk
       /\ \A ptr \in DOMAIN held :
            /\ Header(ptr) \in used
            /\ heap[Header(ptr)].size >= held[ptr]
       /\ \A a, b \in used :
            a # b => \/ Data(a) + heap[a].size <= Data(b)
                     \/ Data(b) + heap[b].size <= Data(a)

\* A block was split (its free remainder is in the list), another was
\* taken whole for a smaller request, and two blocks are in use.
C23_Witness ==
  /\ fault = ""
  /\ \E b \in DOMAIN heap : heap[b].free /\ heap[b].size = SplitSize(100 - 16)
  /\ \E ptr \in DOMAIN held : heap[Header(ptr)].size > held[ptr]
  /\ Cardinality(DOMAIN held) >= 2

====
